---- MODULE Spec2Model ----
(***************************************************************************)
(* A model of leveldb/convenience.py: the cascading-close resource guard   *)
(* (_MemorySafety), the database handle (DBInterface), the prefix-scoped   *)
(* Iterator and the write batches (_OpaqueWriteBatch, WriteBatch).         *)
(*                                                                         *)
(* Python values are modelled as follows.  A byte string is a sequence of  *)
(* bytes.  An optional value is a sequence of length at most one: None is  *)
(* <<>> and a present value x is <<x>>, so that the empty string and None  *)
(* stay different, as they are in the code ("prefix is not None").  An     *)
(* exception is the "result" field of lastCall.  The default options       *)
(* (sync, verify_checksums, fill_cache) are passed through to the engine   *)
(* unchanged and decide nothing here; they are left out.                   *)
(*                                                                         *)
(* The storage engine is outside convenience.py.  Its primitives (the      *)
(* Engine... operators) follow the interface the code calls.               *)
(***************************************************************************)
EXTENDS Integers, Sequences, FiniteSets, TLC

(* ------------------------------ bounds -------------------------------- *)

\* Guards (and native resources) ever created in one run, the store's included.
MaxGuards == 3
\* Database handles the caller holds at one time.
MaxHandles == 3
\* Bytes in a handle's prefix.
MaxPrefix == 1
\* Write batches ever created in one run.
MaxBatches == 1
\* Iterators the caller holds at one time in the runs that scan the store.
MaxIterators == 1
\* Keys in the store when it is opened, in the runs that seek from the end.
MaxStore == 3
\* The steps one scan may return rows from in the runs that step both ways.
MaxRows == 2

(* ------------------------------ values -------------------------------- *)

None == <<>>

Some(x) == <<x>>

\* The bytes the model draws keys and prefixes from: the smallest, a middle
\* and the largest byte value.
Bytes == {0, 1, 255}

\* key[:len(prefix)] == prefix
StartsWith(key, prefix) ==
    /\ Len(key) >= Len(prefix)
    /\ SubSeq(key, 1, Len(prefix)) = prefix

\* key[len(prefix):]
Strip(key, prefix) == SubSeq(key, Len(prefix) + 1, Len(key))

\* if prefix is not None: key = prefix + key
TranslateNever(prefix, key) == key

Translate(prefix, key) == IF prefix # None THEN prefix[1] \o key ELSE key

VARIABLES
    guards,     \* _MemorySafety objects, by identity 1..Len(guards)
    native,     \* the engine's native resources, by identity 1..Len(native)
    handles,    \* the DBInterface objects the caller holds
    iters,      \* the Iterator objects the caller holds
    batches,    \* the write batches, by identity 1..Len(batches)
    log,        \* history: the native resources in the order they were released
    scan,       \* history: what next() has returned since the last seek
    lastCall    \* history: the last operation, how it ended, what it returned
                \* and what it handed the engine

vars == <<guards, native, handles, iters, batches, log, scan, lastCall>>

\* What an operation on guards and handles leaves alone.
otherVars == <<batches, scan>>

(* ------------------------- the storage engine -------------------------- *)

\* ref.close(): the engine releases the native resource.
EngineClose(S, r) ==
    [S EXCEPT !.native[r].open = FALSE,
              !.native[r].releases = @ + 1,
              !.log = Append(@, r)]

\* A new native resource of `kind` made from resource `parent`: a cursor
\* (ref.iterator()) or a point-in-time view (ref.snapshot()).  Both see the
\* content of their parent as it is now; a cursor starts unpositioned.
EngineNew(kind, parent) ==
    [kind |-> kind, open |-> TRUE, releases |-> 0, parent |-> parent,
     content |-> native[parent].content, pos |-> None]

\* ref.get(key): the value, or None.
EngineGet(r, key) ==
    IF key \in DOMAIN native[r].content THEN Some(native[r].content[key]) ELSE None

\* Byte-lexicographic order, the engine's default comparator.
LexLess(a, b) ==
    \/ Len(a) < Len(b) /\ SubSeq(b, 1, Len(a)) = a
    \/ \E i \in 1..Len(a) :
          /\ i <= Len(b)
          /\ SubSeq(a, 1, i - 1) = SubSeq(b, 1, i - 1)
          /\ a[i] < b[i]

\* The smallest and the largest key of a set, as a position: None if empty.
MinKey(keys) ==
    IF keys = {} THEN None
    ELSE Some(CHOOSE k \in keys : \A o \in keys : o = k \/ LexLess(k, o))

MaxKey(keys) ==
    IF keys = {} THEN None
    ELSE Some(CHOOSE k \in keys : \A o \in keys : o = k \/ LexLess(o, k))

\* cursor.valid(), cursor.key(), cursor.val()
EngineValid(N, r) == N[r].pos # None

EngineKey(N, r) == N[r].pos[1]

EngineVal(N, r) == N[r].content[N[r].pos[1]]

\* cursor.seek(target): the first key >= target.
EngineSeek(N, r, target) ==
    [N EXCEPT ![r].pos =
        MinKey({k \in DOMAIN N[r].content : k = target \/ LexLess(target, k)})]

\* cursor.seekFirst(), cursor.seekLast()
EngineSeekFirst(N, r) == [N EXCEPT ![r].pos = MinKey(DOMAIN N[r].content)]

EngineSeekLast(N, r) == [N EXCEPT ![r].pos = MaxKey(DOMAIN N[r].content)]

\* cursor.next(), cursor.prev() of a positioned cursor.
EngineNext(N, r) ==
    [N EXCEPT ![r].pos =
        MinKey({k \in DOMAIN N[r].content : LexLess(N[r].pos[1], k)})]

EnginePrev(N, r) ==
    [N EXCEPT ![r].pos =
        MaxKey({k \in DOMAIN N[r].content : LexLess(k, N[r].pos[1])})]

\* ref.put(key, val), ref.delete(key): the store's content afterwards.
EnginePut(content, key, val) ==
    [k \in DOMAIN content \cup {key} |-> IF k = key THEN val ELSE content[k]]

EngineDelete(content, key) ==
    [k \in DOMAIN content \ {key} |-> content[k]]

\* ref.write(batch): the batch's puts and deletes applied as one unit.
EngineWrite(content, puts, deletes) ==
    [k \in (DOMAIN content \cup DOMAIN puts) \ deletes |->
        IF k \in DOMAIN puts THEN puts[k] ELSE content[k]]

(* ------------------------------ _MemorySafety -------------------------- *)

\* _MemorySafety.__init__: the guard of native resource `r`; ref = 0 is None.
\* The other fields are history: the resource it was made for, whether the
\* Python object still exists, and how close() first reached it ("no": never;
\* "close": called on its owner; "cascade": from its parent guard; "del": by
\* its finalizer).
NewGuard(r) ==
    [ref |-> r, referrers |-> Some({}), wraps |-> r, alive |-> TRUE,
     reached |-> "no"]

\* Mutant: close() forgets to clear self._referrers.
CapturedKeepsReferrers(guard) ==
    [guard EXCEPT !.ref = 0]

\* Mutant: close() forgets to clear self.ref.
CapturedKeepsRef(guard) ==
    [guard EXCEPT !.referrers = None]

\* close(), its first two statements: ref and _referrers are taken and cleared.
Captured(guard) ==
    [guard EXCEPT !.ref = 0, !.referrers = None]

\* History: close() is entered on guard g, reached in the way `how`.
Entered(S, g, how) ==
    IF S.guards[g].reached = "no" THEN [S EXCEPT !.guards[g].reached = how] ELSE S

RECURSIVE CloseGuard(_, _)
RECURSIVE CloseEach(_, _)

\* Mutant: close() releases its own resource before it closes the dependents.
CloseGuardReleasesFirst(S, g) ==
    LET ref       == S.guards[g].ref
        referrers == S.guards[g].referrers
        S1        == [S EXCEPT !.guards[g] = Captured(@)]
        S2        == IF ref # 0 THEN EngineClose(S1, ref) ELSE S1
    IN  IF referrers # None THEN CloseEach(S2, referrers[1]) ELSE {S2}

\* _MemorySafety.close on guard g in state S = [guards, native, log]: the
\* states it can end in, one for each order the dependents are visited in.
CloseGuard(S, g) ==
    LET ref       == S.guards[g].ref
        referrers == S.guards[g].referrers
        S1        == [S EXCEPT !.guards[g] = Captured(@)]
        cascaded  == IF referrers # None THEN CloseEach(S1, referrers[1]) ELSE {S1}
    IN  {IF ref # 0 THEN EngineClose(T, ref) ELSE T : T \in cascaded}

\* Mutant: close() does not visit the dependents.
CloseEachSkips(S, todo) == {S}

\* for referrer in referrers.valuerefs(): if referrer() is not None: close it
CloseEach(S, todo) ==
    IF todo = {} THEN {S}
    ELSE UNION {
           UNION {CloseEach(T, todo \ {c}) :
                    T \in (IF S.guards[c].alive
                           THEN CloseGuard(Entered(S, c, "cascade"), c)
                           ELSE {S})}
           : c \in todo}

\* addReferrer, its check: raise Exception("already closed")
AddReferrerRaises(G, g) == G[g].referrers = None

\* Mutant: addReferrer records the guard with its dependent as well.
AddReferrerBothWays(G, g, c) ==
    [G EXCEPT ![g].referrers = Some(@[1] \cup {c}),
              ![c].referrers = Some(@[1] \cup {g})]

\* Mutant: addReferrer does not record the dependent.
AddReferrerForgets(G, g, c) == G

\* addReferrer, its effect: self._referrers[id(referrer)] = referrer
AddReferrer(G, g, c) ==
    [G EXCEPT ![g].referrers = Some(@[1] \cup {c})]

\* The guard object g has become unreachable: the weak dictionaries drop it
\* and its finalizer runs (__del__ = close).
Finalize(S, g) ==
    LET pruned == [x \in DOMAIN S.guards |->
                     IF S.guards[x].referrers # None
                     THEN [S.guards[x] EXCEPT !.referrers = Some(@[1] \ {g})]
                     ELSE S.guards[x]]
        weak   == SubSeq(pruned, 1, Len(S.guards))
        S1     == [S EXCEPT !.guards = [weak EXCEPT ![g].alive = FALSE]]
    IN  CloseGuard(Entered(S1, g, "del"), g)

Now == [guards |-> guards, native |-> native, log |-> log]

Becomes(T) ==
    /\ guards' = T.guards
    /\ native' = T.native
    /\ log' = T.log

\* The native resources resource r was made from, r included.
RECURSIVE Lineage(_, _)
Lineage(N, r) == IF r = 0 THEN {} ELSE {r} \cup Lineage(N, N[r].parent)

\* self._impl.ref.<primitive>(...) of operation `op` on guard g: None has no
\* primitives (AttributeError); otherwise the primitive of native resource
\* `res` runs, and the access is dangling if the engine has released that
\* resource or one it was made from.
Called(op, g) ==
    LET ref == guards[g].ref IN
    [op |-> op, guard |-> g,
     result |-> IF ref = 0 THEN "AttributeError" ELSE "ok",
     res |-> ref,
     dangling |-> \E r \in Lineage(native, ref) : ~native[r].open,
     ret |-> None, wrote |-> None, batch |-> 0, was |-> None,
     undefined |-> FALSE]

\* An operation `op` on guard g that calls no primitive and raises nothing.
Done(op, g) ==
    [op |-> op, guard |-> g, result |-> "ok", res |-> 0, dangling |-> FALSE,
     ret |-> None, wrote |-> None, batch |-> 0, was |-> None,
     undefined |-> FALSE]

\* The objects that hold guard g: handles share it, an Iterator owns it.
Holders(H, I, g) == {h \in H : h.impl = g} \cup {i \in I : i.impl = g}

\* addReferrer called on guard g with the guard c of a dependent made from
\* the resource of g.
AddReferrerCall(g, c) ==
    /\ g \in DOMAIN guards
    /\ c \in DOMAIN guards
    /\ guards[c].alive
    /\ native[guards[c].wraps].parent = guards[g].wraps
    /\ IF AddReferrerRaises(guards, g)
       THEN /\ lastCall' = [Done("addReferrer", g) EXCEPT !.result = "Exception"]
            /\ UNCHANGED guards
       ELSE /\ lastCall' = Done("addReferrer", g)
            /\ guards' = AddReferrer(guards, g, c)
    /\ UNCHANGED <<native, handles, iters, log, otherVars>>

(* ------------------------------ DBInterface ---------------------------- *)

\* A DBInterface is [impl, prefix, allow_close]; origin is history: how the
\* handle was obtained ("open", "snapshot" or "scope").

\* _makeDBFromImpl: the owning handle of a store just opened.
RootHandle ==
    [impl |-> 1, prefix |-> None, allow_close |-> TRUE, origin |-> "open"]

\* Mutant: close() does not look at _allow_close.
AllowsCloseAlways(h) == TRUE

\* DBInterface.close: if self._allow_close
AllowsClose(h) == h.allow_close

\* DBInterface.close
Close(h) ==
    /\ h \in handles
    /\ IF AllowsClose(h)
       THEN \E T \in CloseGuard(Entered(Now, h.impl, "close"), h.impl) : Becomes(T)
       ELSE UNCHANGED <<guards, native, log>>
    /\ lastCall' = Done("close", h.impl)
    /\ UNCHANGED <<handles, iters, otherVars>>

\* DBInterface.iterator and Iterator.__init__: the prefix of the new Iterator.
IteratorPrefix(orig_prefix, prefix) ==
    IF orig_prefix # None
    THEN IF prefix = None THEN orig_prefix ELSE Some(orig_prefix[1] \o prefix[1])
    ELSE prefix

\* DBInterface.scope: the prefix of the scoped handle.
ScopePrefixReversed(orig_prefix, prefix) ==
    IF orig_prefix # None THEN Some(prefix \o orig_prefix[1]) ELSE Some(prefix)

ScopePrefix(orig_prefix, prefix) ==
    IF orig_prefix # None THEN Some(orig_prefix[1] \o prefix) ELSE Some(prefix)

\* DBInterface.scope: the handle it returns.
ScopedHandle(h, prefix) ==
    [impl |-> h.impl, prefix |-> ScopePrefix(h.prefix, prefix),
     allow_close |-> FALSE, origin |-> "scope"]

\* The scoped handle's prefix is within the bound of the runs that let go
\* of handles.
Fits(h, prefix) == Len(ScopedHandle(h, prefix).prefix[1]) <= MaxPrefix

\* DBInterface.scope
Scope(h, prefix) ==
    /\ h \in handles
    /\ Cardinality(handles) < MaxHandles
    /\ handles' = handles \cup {ScopedHandle(h, prefix)}
    /\ lastCall' = Done("scope", h.impl)
    /\ UNCHANGED <<guards, native, iters, log, otherVars>>

\* _MemorySafety(impl.ref.<kind>()) and impl.addReferrer(it): a native resource
\* is made from the one guard g holds, a guard is made for it and registers
\* with g.  When addReferrer raises, nothing holds the new guard and its
\* finalizer closes it.
Registered(g, kind) ==
    LET r  == Len(native) + 1
        c  == Len(guards) + 1
        S1 == [guards |-> Append(guards, NewGuard(r)),
               native |-> Append(native, EngineNew(kind, guards[g].ref)),
               log |-> log]
    IN  IF AddReferrerRaises(S1.guards, g)
        THEN [raised |-> TRUE, after |-> Finalize(S1, c)]
        ELSE [raised |-> FALSE,
              after |-> {[S1 EXCEPT !.guards = AddReferrer(@, g, c)]}]

\* DBInterface.iterator: the Iterator it returns, on the new guard c.
IteratorOf(h, c, prefix, keys_only) ==
    [impl |-> c, prefix |-> IteratorPrefix(h.prefix, prefix), keys_only |-> keys_only]

\* DBInterface.iterator
NewIterator(h, prefix, keys_only) ==
    /\ h \in handles
    /\ LET call == Called("iterator", h.impl) IN
       IF call.result # "ok"
       THEN /\ lastCall' = call
            /\ UNCHANGED <<guards, native, handles, iters, log>>
       ELSE /\ Len(guards) < MaxGuards
            /\ LET reg == Registered(h.impl, "iterator") IN
               /\ \E T \in reg.after : Becomes(T)
               /\ iters' = IF reg.raised THEN iters
                           ELSE iters \cup
                                {IteratorOf(h, Len(guards) + 1, prefix, keys_only)}
               /\ lastCall' = [call EXCEPT !.result =
                                  IF reg.raised THEN "Exception" ELSE "ok"]
            /\ UNCHANGED handles
    /\ UNCHANGED otherVars

\* DBInterface.snapshot: the handle it returns, on the new guard c.
SnapshotHandle(h, c) ==
    [impl |-> c, prefix |-> h.prefix, allow_close |-> TRUE, origin |-> "snapshot"]

\* DBInterface.snapshot
Snapshot(h) ==
    /\ h \in handles
    /\ LET call == Called("snapshot", h.impl) IN
       IF call.result # "ok"
       THEN /\ lastCall' = call
            /\ UNCHANGED <<guards, native, handles, iters, log>>
       ELSE /\ Len(guards) < MaxGuards
            /\ Cardinality(handles) < MaxHandles
            /\ LET reg == Registered(h.impl, "snapshot") IN
               /\ \E T \in reg.after : Becomes(T)
               /\ handles' = IF reg.raised THEN handles
                             ELSE handles \cup {SnapshotHandle(h, Len(guards) + 1)}
               /\ lastCall' = [call EXCEPT !.result =
                                  IF reg.raised THEN "Exception" ELSE "ok"]
            /\ UNCHANGED iters
    /\ UNCHANGED otherVars

\* DBInterface.get
Get(h, key) ==
    /\ h \in handles
    /\ LET call == Called("get", h.impl) IN
       lastCall' = IF call.result # "ok" THEN call
                   ELSE [call EXCEPT !.ret =
                           Some(EngineGet(call.res, Translate(h.prefix, key)))]
    /\ UNCHANGED <<guards, native, handles, iters, log, otherVars>>

\* Mutant: the test is on the value's truth, and an empty value is missing.
IsNoneOrEmpty(v) == v = None \/ v = Some(<<>>)

\* "v is None" of __getitem__, "is not None" of has
IsNone(v) == v = None

\* DBInterface.has and DBInterface.__contains__
Has(h, key) ==
    /\ h \in handles
    /\ LET call == Called("has", h.impl) IN
       lastCall' = IF call.result # "ok" THEN call
                   ELSE [call EXCEPT !.ret =
                           Some(~IsNone(EngineGet(call.res, Translate(h.prefix, key))))]
    /\ UNCHANGED <<guards, native, handles, iters, log, otherVars>>

\* DBInterface.__getitem__
GetItem(h, key) ==
    /\ h \in handles
    /\ LET call == Called("getitem", h.impl)
           v == EngineGet(call.res, Translate(h.prefix, key))
       IN  lastCall' = IF call.result # "ok" THEN call
                       ELSE IF IsNone(v) THEN [call EXCEPT !.result = "KeyError"]
                       ELSE [call EXCEPT !.ret = Some(v)]
    /\ UNCHANGED <<guards, native, handles, iters, log, otherVars>>

\* A mutation handed to the engine: the puts (key -> value) and the deletes.
Mutation(puts, deletes) == [puts |-> puts, deletes |-> deletes]

\* DBInterface.put.  What a write through a snapshot's handle does is the
\* engine's business; the model writes through the store's own handles.
Put(h, key, val) ==
    /\ h \in handles
    /\ LET call == Called("put", h.impl)
           sent == Mutation(EnginePut(<<>>, Translate(h.prefix, key), val), {})
       IN  IF call.result # "ok"
           THEN lastCall' = call /\ UNCHANGED native
           ELSE /\ native[call.res].kind = "db"
                /\ native' = [native EXCEPT ![call.res].content =
                                 EnginePut(@, Translate(h.prefix, key), val)]
                /\ lastCall' = [call EXCEPT !.wrote = Some(sent)]
    /\ UNCHANGED <<guards, handles, iters, log, batches, scan>>

\* DBInterface.delete
Delete(h, key) ==
    /\ h \in handles
    /\ LET call == Called("delete", h.impl)
           sent == Mutation(<<>>, {Translate(h.prefix, key)})
       IN  IF call.result # "ok"
           THEN lastCall' = call /\ UNCHANGED native
           ELSE /\ native[call.res].kind = "db"
                /\ native' = [native EXCEPT ![call.res].content =
                                 EngineDelete(@, Translate(h.prefix, key))]
                /\ lastCall' = [call EXCEPT !.wrote = Some(sent)]
    /\ UNCHANGED <<guards, handles, iters, log, batches, scan>>

\* The caller lets go of handle h.  A guard nothing holds any more is
\* finalized.
DropHandle(h) ==
    /\ h \in handles
    /\ handles' = handles \ {h}
    /\ IF Holders(handles', iters, h.impl) = {}
       THEN \E T \in Finalize(Now, h.impl) : Becomes(T)
       ELSE UNCHANGED <<guards, native, log>>
    /\ lastCall' = Done("del", h.impl)
    /\ UNCHANGED <<iters, otherVars>>

(* ----------------------------- write batches --------------------------- *)

\* d[key] = val on a dict
SetItem(d, key, val) ==
    [k \in DOMAIN d \cup {key} |-> IF k = key THEN val ELSE d[k]]

\* d.pop(key, None) on a dict
Pop(d, key) == [k \in DOMAIN d \ {key} |-> d[k]]

\* A batch is [puts, deletes, private].  issuer and touched are history: the
\* handle whose newBatch() made the batch (None for a standalone one), and
\* for every key recorded since the batch was made or cleared, the last
\* operation on it, its value and the prefix of the handle that recorded it.
OpaqueWriteBatch(issuer) ==
    [puts |-> <<>>, deletes |-> {}, private |-> TRUE,
     issuer |-> issuer, touched |-> <<>>]

\* WriteBatch.__init__
WriteBatch == [OpaqueWriteBatch(None) EXCEPT !.private = FALSE]

\* History only: the record of the last operation on `key`.
Touch(batch, key, op, val, by) ==
    [batch EXCEPT !.touched = SetItem(@, key, [op |-> op, val |-> val, by |-> by])]

\* What a batch holds for `key`.
Entry(batch, key) ==
    [key |-> key,
     op |-> IF key \in DOMAIN batch.puts THEN "put"
            ELSE IF key \in batch.deletes THEN "delete" ELSE "none",
     val |-> IF key \in DOMAIN batch.puts THEN Some(batch.puts[key]) ELSE None]

\* _OpaqueWriteBatch.clear
Clear(batch) == [batch EXCEPT !.puts = <<>>, !.deletes = {}, !.touched = <<>>]

\* WriteBatch.put
WriteBatchPutKeepsDelete(batch, key, val) ==
    [batch EXCEPT !.puts = SetItem(@, key, val)]

WriteBatchPut(batch, key, val) ==
    [batch EXCEPT !.deletes = @ \ {key}, !.puts = SetItem(@, key, val)]

\* WriteBatch.delete
WriteBatchDelete(batch, key) ==
    [batch EXCEPT !.puts = Pop(@, key), !.deletes = @ \cup {key}]

\* A call on batch b alone; `key` is the key it is about to record.
BatchCall(op, g, b, key) ==
    [Done(op, g) EXCEPT !.batch = b, !.was = Some(Entry(batches[b], key))]

\* WriteBatch()
NewWriteBatch ==
    /\ Len(batches) < MaxBatches
    /\ batches' = Append(batches, WriteBatch)
    /\ lastCall' = [Done("WriteBatch", 0) EXCEPT !.batch = Len(batches) + 1]
    /\ UNCHANGED <<guards, native, handles, iters, log, scan>>

\* batch.put(key, val): only a WriteBatch has the method.
BatchPut(b, key, val) ==
    /\ b \in DOMAIN batches
    /\ ~batches[b].private
    /\ batches' = [batches EXCEPT ![b] =
                      Touch(WriteBatchPut(@, key, val), key, "put", Some(val), None)]
    /\ lastCall' = BatchCall("batch.put", 0, b, key)
    /\ UNCHANGED <<guards, native, handles, iters, log, scan>>

\* batch.delete(key)
BatchDelete(b, key) ==
    /\ b \in DOMAIN batches
    /\ ~batches[b].private
    /\ batches' = [batches EXCEPT ![b] =
                      Touch(WriteBatchDelete(@, key), key, "delete", None, None)]
    /\ lastCall' = BatchCall("batch.delete", 0, b, key)
    /\ UNCHANGED <<guards, native, handles, iters, log, scan>>

\* batch.clear(), on either kind of batch
BatchClear(b) ==
    /\ b \in DOMAIN batches
    /\ batches' = [batches EXCEPT ![b] = Clear(@)]
    /\ lastCall' = [Done("batch.clear", 0) EXCEPT !.batch = b]
    /\ UNCHANGED <<guards, native, handles, iters, log, scan>>

(* ------------------------ DBInterface and batches ---------------------- *)

\* DBInterface.newBatch: the handle leaves no mark on the batch it returns.
NewBatch(h) ==
    /\ h \in handles
    /\ Len(batches) < MaxBatches
    /\ batches' = Append(batches, OpaqueWriteBatch(Some(h)))
    /\ lastCall' = [Done("newBatch", h.impl) EXCEPT !.batch = Len(batches) + 1]
    /\ UNCHANGED <<guards, native, handles, iters, log, scan>>

\* "if not batch._private: raise ValueError" of putTo and deleteFrom
FromNewBatchUnchecked(batch) == TRUE

FromNewBatch(batch) == batch.private

\* putTo, once the batch is accepted and the key translated
PutInto(batch, key, val) ==
    [batch EXCEPT !.deletes = @ \ {key}, !.puts = SetItem(@, key, val)]

\* deleteFrom, once the batch is accepted and the key translated
DeleteInto(batch, key) ==
    [batch EXCEPT !.puts = Pop(@, key), !.deletes = @ \cup {key}]

\* DBInterface.putTo: self._impl is not touched.
PutTo(h, b, key, val) ==
    /\ h \in handles
    /\ b \in DOMAIN batches
    /\ LET stored == Translate(h.prefix, key)
           call == BatchCall("putTo", h.impl, b, stored)
       IN  IF ~FromNewBatch(batches[b])
           THEN /\ lastCall' = [call EXCEPT !.result = "ValueError"]
                /\ UNCHANGED batches
           ELSE /\ lastCall' = call
                /\ batches' = [batches EXCEPT ![b] =
                      Touch(PutInto(@, stored, val), stored, "put", Some(val), h.prefix)]
    /\ UNCHANGED <<guards, native, handles, iters, log, scan>>

\* DBInterface.deleteFrom
DeleteFrom(h, b, key) ==
    /\ h \in handles
    /\ b \in DOMAIN batches
    /\ LET stored == Translate(h.prefix, key)
           call == BatchCall("deleteFrom", h.impl, b, stored)
       IN  IF ~FromNewBatch(batches[b])
           THEN /\ lastCall' = [call EXCEPT !.result = "ValueError"]
                /\ UNCHANGED batches
           ELSE /\ lastCall' = call
                /\ batches' = [batches EXCEPT ![b] =
                      Touch(DeleteInto(@, stored), stored, "delete", None, h.prefix)]
    /\ UNCHANGED <<guards, native, handles, iters, log, scan>>

\* The unscoped_batch of write: every put and every delete under prefix + key.
UnscopedBatchKeepsDeletes(prefix, batch) ==
    Mutation([k \in {prefix \o key : key \in DOMAIN batch.puts} |->
                 batch.puts[Strip(k, prefix)]],
             batch.deletes)

UnscopedBatch(prefix, batch) ==
    Mutation([k \in {prefix \o key : key \in DOMAIN batch.puts} |->
                 batch.puts[Strip(k, prefix)]],
             {prefix \o key : key \in batch.deletes})

\* The batch write hands the engine: a translated copy of a standalone batch
\* if the handle has a prefix, the batch itself otherwise.
Forwarded(h, batch) ==
    IF h.prefix # None /\ ~batch.private
    THEN UnscopedBatch(h.prefix[1], batch)
    ELSE Mutation(batch.puts, batch.deletes)

\* DBInterface.write
Write(h, b) ==
    /\ h \in handles
    /\ b \in DOMAIN batches
    /\ LET call == [Called("write", h.impl) EXCEPT !.batch = b]
           sent == Forwarded(h, batches[b])
       IN  IF call.result # "ok"
           THEN lastCall' = call /\ UNCHANGED native
           ELSE /\ native[call.res].kind = "db"
                /\ native' = [native EXCEPT ![call.res].content =
                                 EngineWrite(@, sent.puts, sent.deletes)]
                /\ lastCall' = [call EXCEPT !.wrote = Some(sent)]
    /\ UNCHANGED <<guards, handles, iters, log, batches, scan>>

(* -------------------------------- Iterator ----------------------------- *)

\* An Iterator is [impl, prefix, keys_only].

Row(key, value) == [key |-> key, value |-> value]

\* Iterator.valid, given the native cursor r = self._impl.ref
Valid(N, i, r) ==
    LET valid == EngineValid(N, r) IN
    IF ~valid \/ i.prefix = None THEN valid
    ELSE StartsWith(EngineKey(N, r), i.prefix[1])

\* Iterator.key
Key(N, i, r) ==
    IF i.prefix # None THEN Strip(EngineKey(N, r), i.prefix[1]) ELSE EngineKey(N, r)

\* Iterator.value
Value(N, i, r) == EngineVal(N, r)

\* Iterator.valid as an operation
IterValid(i) ==
    /\ i \in iters
    /\ LET call == Called("valid", i.impl) IN
       lastCall' = IF call.result # "ok" THEN call
                   ELSE [call EXCEPT !.ret = Some(Valid(native, i, call.res))]
    /\ UNCHANGED <<guards, native, handles, iters, log, otherVars>>

\* Iterator.seekFirst, given the native cursor r
SeekFirstIgnoresPrefix(N, i, r) == EngineSeekFirst(N, r)

SeekFirst(N, i, r) ==
    IF i.prefix # None THEN EngineSeek(N, r, i.prefix[1]) ELSE EngineSeekFirst(N, r)

\* History: no scan is on.
NoScan ==
    [it |-> 0, from |-> "none", key |-> None, reused |-> FALSE,
     rows |-> <<>>, ended |-> FALSE]

\* History: a scan of Iterator i starts at the position `from` sought (for
\* seek, at `key`); reused tells that the Iterator had signalled the end of
\* the scan before it.
ScanFrom(i, from) ==
    [it |-> i.impl, from |-> from, key |-> None,
     reused |-> scan.it = i.impl /\ scan.ended, rows |-> <<>>, ended |-> FALSE]

\* Iterator.seekFirst as an operation
IterSeekFirst(i) ==
    /\ i \in iters
    /\ LET call == Called("seekFirst", i.impl) IN
       /\ lastCall' = call
       /\ IF call.result # "ok"
          THEN UNCHANGED <<native, scan>>
          ELSE /\ native' = SeekFirst(native, i, call.res)
               /\ scan' = ScanFrom(i, "seekFirst")
    /\ UNCHANGED <<guards, handles, iters, log, batches>>

\* Mutant: next() and prev() return the engine's key, prefix and all.
ReturnedKeepsPrefix(N, i, r) ==
    IF i.keys_only THEN EngineKey(N, r) ELSE Row(EngineKey(N, r), Value(N, i, r))

\* Iterator.next, Iterator.prev: what they return
Returned(N, i, r) ==
    IF i.keys_only THEN Key(N, i, r) ELSE Row(Key(N, i, r), Value(N, i, r))

\* Iterator.next
IterNext(i) ==
    /\ i \in iters
    /\ LET call == Called("next", i.impl) IN
       IF call.result # "ok"
       THEN /\ lastCall' = call
            /\ UNCHANGED <<native, scan>>
       ELSE IF ~Valid(native, i, call.res)
       THEN /\ lastCall' = [call EXCEPT !.result = "StopIteration"]
            /\ scan' = IF scan.it = i.impl THEN [scan EXCEPT !.ended = TRUE] ELSE scan
            /\ UNCHANGED native
       ELSE /\ lastCall' = [call EXCEPT !.ret = Some(Returned(native, i, call.res))]
            /\ native' = EngineNext(native, call.res)
            /\ scan' = IF scan.it = i.impl /\ ~scan.ended
                       THEN [scan EXCEPT !.rows = Append(@, Returned(native, i, call.res))]
                       ELSE scan
    /\ UNCHANGED <<guards, handles, iters, log, batches>>

\* prefix == "\xff" * len(prefix)
OnlyFF(prefix) == \A n \in 1..Len(prefix) : prefix[n] = 255

\* long(prefix.encode('hex'), 16): the bytes as one big-endian number
RECURSIVE ToLong(_)
ToLong(bytes) ==
    IF bytes = <<>> THEN 0
    ELSE ToLong(SubSeq(bytes, 1, Len(bytes) - 1)) * 256 + bytes[Len(bytes)]

\* hex(n)[2:].rstrip("L").rjust(2 * len, "0").decode("hex"): the number as
\* len bytes, for a number that fits.
RECURSIVE FromLong(_, _)
FromLong(n, len) ==
    IF len = 0 THEN <<>> ELSE FromLong(n \div 256, len - 1) \o <<n % 256>>

\* bytes.rstrip("\x00")
RECURSIVE RStripZeros(_)
RStripZeros(bytes) ==
    IF bytes # <<>> /\ bytes[Len(bytes)] = 0
    THEN RStripZeros(SubSeq(bytes, 1, Len(bytes) - 1))
    ELSE bytes

\* Mutant: the successor keeps the zero bytes a carry leaves at its end.
NextPrefixKeepsZeros(prefix) == FromLong(ToLong(prefix) + 1, Len(prefix))

\* next_prefix of seekLast
NextPrefix(prefix) == RStripZeros(FromLong(ToLong(prefix) + 1, Len(prefix)))

\* Iterator.seekLast, given the native cursor r
SeekLastNeverStepsBack(N, i, r) ==
    IF i.prefix = None \/ OnlyFF(i.prefix[1])
    THEN EngineSeekLast(N, r)
    ELSE LET N1 == EngineSeek(N, r, NextPrefix(i.prefix[1]))
         IN  IF EngineValid(N1, r) THEN N1 ELSE EngineSeekLast(N1, r)

SeekLast(N, i, r) ==
    IF i.prefix = None \/ OnlyFF(i.prefix[1])
    THEN EngineSeekLast(N, r)
    ELSE LET N1 == EngineSeek(N, r, NextPrefix(i.prefix[1]))
         IN  IF EngineValid(N1, r) THEN EnginePrev(N1, r) ELSE EngineSeekLast(N1, r)

\* Iterator.seekLast as an operation
IterSeekLast(i) ==
    /\ i \in iters
    /\ LET call == Called("seekLast", i.impl) IN
       /\ lastCall' = call
       /\ IF call.result # "ok"
          THEN UNCHANGED <<native, scan>>
          ELSE /\ native' = SeekLast(native, i, call.res)
               /\ scan' = ScanFrom(i, "seekLast")
    /\ UNCHANGED <<guards, handles, iters, log, batches>>

\* Mutant: seek() hands the key to the cursor as it is.
SeekIgnoresPrefix(N, i, r, key) == EngineSeek(N, r, key)

\* Iterator.seek, given the native cursor r
Seek(N, i, r, key) == EngineSeek(N, r, Translate(i.prefix, key))

\* Iterator.seek as an operation
IterSeek(i, key) ==
    /\ i \in iters
    /\ LET call == Called("seek", i.impl) IN
       /\ lastCall' = call
       /\ IF call.result # "ok"
          THEN UNCHANGED <<native, scan>>
          ELSE /\ native' = Seek(native, i, call.res, key)
               /\ scan' = [ScanFrom(i, "seek") EXCEPT !.key = Some(key)]
    /\ UNCHANGED <<guards, handles, iters, log, batches>>

\* Iterator.prev
IterPrev(i) ==
    /\ i \in iters
    /\ LET call == Called("prev", i.impl) IN
       IF call.result # "ok"
       THEN /\ lastCall' = call
            /\ UNCHANGED <<native, scan>>
       ELSE IF ~Valid(native, i, call.res)
       THEN /\ lastCall' = [call EXCEPT !.result = "StopIteration"]
            /\ scan' = IF scan.it = i.impl THEN [scan EXCEPT !.ended = TRUE] ELSE scan
            /\ UNCHANGED native
       ELSE /\ lastCall' = [call EXCEPT !.ret = Some(Returned(native, i, call.res))]
            /\ native' = EnginePrev(native, call.res)
            /\ scan' = IF scan.it = i.impl /\ ~scan.ended
                       THEN [scan EXCEPT !.rows = Append(@, Returned(native, i, call.res))]
                       ELSE scan
    /\ UNCHANGED <<guards, handles, iters, log, batches>>

\* Iterator.range up to its loop.  self.key() of a cursor that is not
\* positioned is undefined in the engine: it raises, or it hands back bytes
\* that are no key of the store, and the range goes on from nowhere.
RangeStart(N, i, r, start_key, start_inclusive) ==
    IF start_key = None
    THEN {[N |-> SeekFirst(N, i, r), result |-> "ok", undefined |-> FALSE]}
    ELSE LET N1 == Seek(N, i, r, start_key[1]) IN
         IF start_inclusive
         THEN {[N |-> N1, result |-> "ok", undefined |-> FALSE]}
         ELSE IF ~EngineValid(N1, r)
         THEN {[N |-> N1, result |-> "EngineError", undefined |-> TRUE],
               [N |-> N1, result |-> "ok", undefined |-> TRUE]}
         ELSE {[N |-> IF Key(N1, i, r) = start_key[1] THEN EngineNext(N1, r) ELSE N1,
                result |-> "ok", undefined |-> FALSE]}

\* row.key > end_key or (not end_inclusive and row.key == end_key)
PastEnd(key, end_key, end_inclusive) ==
    LexLess(end_key, key) \/ (~end_inclusive /\ key = end_key)

\* The loop of Iterator.range, run to its end: "for row in self" is next(),
\* and row.key of a bare key (keys_only) is an AttributeError.
RECURSIVE RangeLoop(_, _, _, _, _)
RangeLoop(N, i, r, end_key, end_inclusive) ==
    IF ~Valid(N, i, r)
    THEN [N |-> N, result |-> "ok", rows |-> <<>>]
    ELSE LET row == Returned(N, i, r)
             N1  == EngineNext(N, r)
         IN  IF end_key # None /\ i.keys_only
             THEN [N |-> N1, result |-> "AttributeError", rows |-> <<>>]
             ELSE IF end_key # None /\ PastEnd(row.key, end_key[1], end_inclusive)
             THEN [N |-> N1, result |-> "ok", rows |-> <<>>]
             ELSE LET rest == RangeLoop(N1, i, r, end_key, end_inclusive)
                  IN  [rest EXCEPT !.rows = <<row>> \o @]

\* Iterator.range, consumed to its end: what it leaves and what it yields.
Range(N, i, r, start_key, end_key, start_inclusive, end_inclusive) ==
    {IF start.result # "ok"
     THEN [N |-> start.N, result |-> start.result, rows |-> <<>>,
           undefined |-> start.undefined]
     ELSE LET loop == RangeLoop(start.N, i, r, end_key, end_inclusive)
          IN  [N |-> loop.N, result |-> loop.result, rows |-> loop.rows,
               undefined |-> start.undefined]
     : start \in RangeStart(N, i, r, start_key, start_inclusive)}

\* The outcome of a range as the record of the call.
Ranged(call, out) ==
    [call EXCEPT !.result = out.result, !.ret = Some(out.rows),
                 !.undefined = out.undefined]

\* Iterator.range as an operation
IterRange(i, start_key, end_key, start_inclusive, end_inclusive) ==
    /\ i \in iters
    /\ LET call == Called("range", i.impl) IN
       IF call.result # "ok"
       THEN lastCall' = call /\ UNCHANGED native
       ELSE \E out \in Range(native, i, call.res, start_key, end_key,
                              start_inclusive, end_inclusive) :
               /\ native' = out.N
               /\ lastCall' = Ranged(call, out)
    /\ scan' = NoScan
    /\ UNCHANGED <<guards, handles, iters, log, batches>>

\* Iterator.keys and Iterator.values, consumed to their end: valid() is
\* asked before every read.
RECURSIVE Listed(_, _, _, _)
Listed(N, i, r, what) ==
    IF ~Valid(N, i, r)
    THEN [N |-> N, rows |-> <<>>]
    ELSE LET rest == Listed(EngineNext(N, r), i, r, what)
         IN  [rest EXCEPT !.rows =
                 <<IF what = "keys" THEN Key(N, i, r) ELSE Value(N, i, r)>> \o @]

\* Iterator.keys, Iterator.values as operations
IterList(i, what) ==
    /\ i \in iters
    /\ LET call == Called(what, i.impl) IN
       IF call.result # "ok"
       THEN lastCall' = call /\ UNCHANGED native
       ELSE LET out == Listed(native, i, call.res, what) IN
            /\ native' = out.N
            /\ lastCall' = [call EXCEPT !.ret = Some(out.rows)]
    /\ scan' = NoScan
    /\ UNCHANGED <<guards, handles, iters, log, batches>>

\* Iterator.close
IterClose(i) ==
    /\ i \in iters
    /\ \E T \in CloseGuard(Entered(Now, i.impl, "close"), i.impl) : Becomes(T)
    /\ lastCall' = Done("close", i.impl)
    /\ UNCHANGED <<handles, iters, otherVars>>

\* The caller lets go of Iterator i: its guard is finalized.
DropIterator(i) ==
    /\ i \in iters
    /\ iters' = iters \ {i}
    /\ IF Holders(handles, iters', i.impl) = {}
       THEN \E T \in Finalize(Now, i.impl) : Becomes(T)
       ELSE UNCHANGED <<guards, native, log>>
    /\ lastCall' = Done("del", i.impl)
    /\ UNCHANGED <<handles, otherVars>>

\* DBInterface.range, consumed to its end: the handle makes an Iterator of
\* its own, the range runs over it, and the Iterator goes with the generator.
HandleRange(h, start_key, end_key, start_inclusive, end_inclusive) ==
    /\ h \in handles
    /\ LET call == Called("range", h.impl) IN
       IF call.result # "ok"
       THEN lastCall' = call /\ UNCHANGED <<guards, native, log>>
       ELSE /\ Len(guards) < MaxGuards
            /\ LET reg == Registered(h.impl, "iterator")
                   c   == Len(guards) + 1
                   i   == IteratorOf(h, c, None, FALSE)
               IN  \E T \in reg.after :
                       IF reg.raised
                       THEN Becomes(T) /\ lastCall' = [call EXCEPT !.result = "Exception"]
                       ELSE \E out \in Range(T.native, i, T.guards[c].ref, start_key,
                                              end_key, start_inclusive, end_inclusive) :
                            \E F \in Finalize([T EXCEPT !.native = out.N], c) :
                                Becomes(F) /\ lastCall' = Ranged(call, out)
    /\ UNCHANGED <<handles, iters, otherVars>>

(* --------------------- resource lifetime: SpecGuard -------------------- *)

\* The store as _makeDBFromImpl finds it, holding `content`.
Opened(content) ==
    /\ guards = <<NewGuard(1)>>
    /\ native = <<[kind |-> "db", open |-> TRUE, releases |-> 0, parent |-> 0,
                   content |-> content, pos |-> None]>>
    /\ handles = {RootHandle}
    /\ iters = {}
    /\ batches = <<>>
    /\ log = <<>>
    /\ scan = NoScan
    /\ lastCall = Done("open", 1)

\* The prefix, key and value the lifetime runs use.
GuardPrefix == <<1>>

GuardKey == <<0>>

GuardVal == <<7>>

InitGuard == Opened(<<>>)

\* Opening, scoping, snapshotting, iterating, closing and letting go, in any
\* order, with the reads that go through a guard.
NextGuard ==
    \/ \E h \in handles : Close(h)
    \/ \E h \in handles : Fits(h, GuardPrefix) /\ Scope(h, GuardPrefix)
    \/ \E h \in handles : Snapshot(h)
    \/ \E h \in handles : NewIterator(h, None, FALSE)
    \/ \E h \in handles : Get(h, GuardKey)
    \/ \E h \in handles : DropHandle(h)
    \/ \E i \in iters : IterValid(i)
    \/ \E i \in iters : IterNext(i)
    \/ \E i \in iters : IterClose(i)
    \/ \E i \in iters : DropIterator(i)

SpecGuard == InitGuard /\ [][NextGuard]_vars

\* The same with a write that reaches the engine.
NextUse ==
    \/ NextGuard
    \/ \E h \in handles : Put(h, GuardKey, GuardVal)

SpecUse == InitGuard /\ [][NextUse]_vars

\* The keys and values the batch runs use.  Under GuardPrefix the first key
\* is stored as the second one.
BatchKeys == {<<0>>, <<1, 0>>}

BatchVals == {<<7>>, <<8>>}

\* Scoping, filling batches of either kind, and writing, in any order.
NextBatch ==
    \/ \E h \in handles : Fits(h, GuardPrefix) /\ Scope(h, GuardPrefix)
    \/ NewWriteBatch
    \/ \E h \in handles : NewBatch(h)
    \/ \E b \in DOMAIN batches, k \in BatchKeys, v \in BatchVals : BatchPut(b, k, v)
    \/ \E b \in DOMAIN batches, k \in BatchKeys : BatchDelete(b, k)
    \/ \E b \in DOMAIN batches : BatchClear(b)
    \/ \E h \in handles, b \in DOMAIN batches, k \in BatchKeys, v \in BatchVals :
          PutTo(h, b, k, v)
    \/ \E h \in handles, b \in DOMAIN batches, k \in BatchKeys : DeleteFrom(h, b, k)
    \/ \E h \in handles, b \in DOMAIN batches : Write(h, b)
    \/ \E h \in handles, k \in BatchKeys, v \in BatchVals : Put(h, k, v)
    \/ \E h \in handles, k \in BatchKeys : Delete(h, k)

SpecBatch == InitGuard /\ [][NextBatch]_vars

(* ----------------------- prefixed scans: SpecIter ---------------------- *)

\* The keys the store may hold when it is opened: the empty key, one below
\* GuardPrefix, one above it, and GuardPrefix itself with two keys that
\* extend it.
IterKeys == {<<>>, <<0>>, <<1>>, <<1, 0>>, <<1, 0, 255>>, <<255>>}

\* The value the store holds for a key: it tells the keys apart.
ValueOf(k) == k \o <<7>>

\* The sub-prefixes handed to iterator(): none, the empty one, one byte.
IterPrefixes == {None, Some(<<>>), Some(<<0>>)}

InitIter == \E K \in SUBSET IterKeys : Opened([k \in K |-> ValueOf(k)])

\* Scoping, making an Iterator with or without a sub-prefix, and scanning.
NextIter ==
    \/ \E h \in handles : Fits(h, GuardPrefix) /\ Scope(h, GuardPrefix)
    \/ \E h \in handles, p \in IterPrefixes :
          Cardinality(iters) < MaxIterators /\ NewIterator(h, p, FALSE)
    \/ \E i \in iters : IterSeekFirst(i)
    \/ \E i \in iters : IterNext(i)
    \/ \E i \in iters : IterValid(i)

SpecIter == InitIter /\ [][NextIter]_vars

(* --------------------- late registration: SpecClosed ------------------- *)

\* The lifetime runs, with addReferrer called on any guard at any time.
NextClosed ==
    \/ NextGuard
    \/ \E g, c \in DOMAIN guards : AddReferrerCall(g, c)

SpecClosed == InitGuard /\ [][NextClosed]_vars

(* ------------------------ repositioning: SpecSeek ---------------------- *)

\* The keys a store of these runs may hold: below, at, under and above the
\* prefix <<1>>.
SeekKeys == {<<0>>, <<1>>, <<1, 1>>, <<2>>}

\* The prefixes of the Iterators: none, and <<1>>.
SeekPrefixes == {None, Some(<<1>>)}

\* The keys handed to seek(): under <<1>> the first asks for <<1>>, the
\* second for <<1, 0>>, which no store holds, the third for <<1, 1>> and the
\* last for a key above every key under the prefix.
SeekTargets == {<<>>, <<0>>, <<1>>, <<3>>}

\* The scan on has returned fewer rows than the bound, or is over.
Stepping == Len(scan.rows) < MaxRows \/ scan.ended

InitSeek == \E K \in SUBSET SeekKeys : Opened([k \in K |-> ValueOf(k)])

\* Making an Iterator of rows or of keys only, positioning it and stepping
\* it both ways, past the end and after that.
NextSeek ==
    \/ \E h \in handles, p \in SeekPrefixes, ko \in BOOLEAN :
          Cardinality(iters) < MaxIterators /\ NewIterator(h, p, ko)
    \/ \E i \in iters, k \in SeekTargets : IterSeek(i, k)
    \/ \E i \in iters : IterSeekFirst(i)
    \/ \E i \in iters : IterSeekLast(i)
    \/ \E i \in iters : Stepping /\ IterNext(i)
    \/ \E i \in iters : Stepping /\ IterPrev(i)
    \/ \E i \in iters : IterValid(i)

SpecSeek == InitSeek /\ [][NextSeek]_vars

(* ------------------------ nested scopes: SpecScope --------------------- *)

\* The prefixes handed to scope(): scoping by the first and then by the
\* second gives the effective prefix <<1, 2>>.
ScopePieces == {<<1>>, <<2>>}

\* The keys handed to the handles: under <<1>> the second one is what the
\* first one is under <<1, 2>>.
ScopeKeys == {<<0>>, <<2, 0>>}

\* The values written: the empty one and another.
ScopeVals == {<<>>, <<7>>}

\* Scoping to any depth the handles held allow, snapshotting, and single-key
\* reads and writes.
NextScope ==
    \/ \E h \in handles, p \in ScopePieces : Scope(h, p)
    \/ \E h \in handles : Snapshot(h)
    \/ \E h \in handles, k \in ScopeKeys, v \in ScopeVals : Put(h, k, v)
    \/ \E h \in handles, k \in ScopeKeys : Delete(h, k)
    \/ \E h \in handles, k \in ScopeKeys : Get(h, k)
    \/ \E h \in handles, k \in ScopeKeys : Has(h, k)
    \/ \E h \in handles, k \in ScopeKeys : GetItem(h, k)

SpecScope == InitGuard /\ [][NextScope]_vars

(* --------------------------- ranges: SpecRange ------------------------- *)

\* The keys the store may hold: five keys in a row, the first of them being
\* GuardPrefix, and a key that extends GuardPrefix.
RangeKeys == {<<1>>, <<1, 2>>, <<2>>, <<3>>, <<4>>, <<5>>}

\* The start and end keys handed to range(): none, the second and the fourth
\* key of the row.
RangeBounds == {None, Some(<<2>>), Some(<<4>>)}

InitRange == \E K \in SUBSET RangeKeys : Opened([k \in K |-> ValueOf(k)])

\* Scoping, making an Iterator, and the operations that run a cursor on
\* their own.
NextRange ==
    \/ \E h \in handles : Fits(h, GuardPrefix) /\ Scope(h, GuardPrefix)
    \/ \E h \in handles, ko \in BOOLEAN :
          Cardinality(iters) < MaxIterators /\ NewIterator(h, None, ko)
    \/ \E i \in iters, s \in RangeBounds, e \in RangeBounds, si \in BOOLEAN, ei \in BOOLEAN :
          IterRange(i, s, e, si, ei)
    \/ \E h \in handles, s \in RangeBounds, e \in RangeBounds, si \in BOOLEAN, ei \in BOOLEAN :
          HandleRange(h, s, e, si, ei)
    \/ \E i \in iters, what \in {"keys", "values"} : IterList(i, what)
    \/ \E i \in iters : IterNext(i)
    \/ \E i \in iters : IterPrev(i)

SpecRange == InitRange /\ [][NextRange]_vars

(* ---------------------- backward scans: SpecBack ----------------------- *)

\* The prefixes handed to iterator(): none, the empty one, one whose last
\* byte can be raised, two whose raising carries, two that have no successor.
BackPrefixes ==
    {None, Some(<<>>), Some(<<1, 2>>), Some(<<1, 255>>), Some(<<0, 255>>),
     Some(<<255>>), Some(<<255, 255>>)}

\* The keys the store may hold: for each prefix but <<0, 255>>, keys under
\* it, its successor if it has one, and keys below.
BackKeys ==
    {<<0>>, <<1, 2>>, <<1, 3>>, <<1, 255>>, <<1, 255, 255>>, <<2>>,
     <<255>>, <<255, 255>>}

InitBack ==
    \E K \in SUBSET BackKeys :
        Cardinality(K) <= MaxStore /\ Opened([k \in K |-> ValueOf(k)])

\* Making an Iterator under a prefix, seeking to the end, stepping back.
NextBack ==
    \/ \E h \in handles, p \in BackPrefixes :
          Cardinality(iters) < MaxIterators /\ NewIterator(h, p, FALSE)
    \/ \E i \in iters : IterSeekLast(i)
    \/ \E i \in iters : IterPrev(i)
    \/ \E i \in iters : IterValid(i)

SpecBack == InitBack /\ [][NextBack]_vars

(* ------------------------------- claims ------------------------------- *)

\* The guard made for native resource r (guards and resources are made in
\* pairs, so they share their index).
GuardOf(r) == CHOOSE g \in DOMAIN guards : guards[g].wraps = r

\* Native resource r was made, directly or through others, from resource p.
MadeUnder(r, p) == r # p /\ p \in Lineage(native, r)

(* C1: the native resource of every guard is released at most once: never    *)
(* before close() has reached the guard, and exactly once from the moment    *)
(* close() has reached it (called directly, by a cascade or by the           *)
(* finalizer), however many close() follow; and a close() on a guard that    *)
(* close() has reached before changes nothing.                               *)
ReleasedOnceState ==
    \A g \in DOMAIN guards :
        LET r == guards[g].wraps IN
        /\ native[r].releases = IF guards[g].reached = "no" THEN 0 ELSE 1
        /\ native[r].open <=> guards[g].reached = "no"
        /\ Cardinality({k \in DOMAIN log : log[k] = r}) = native[r].releases

RepeatedCloseStep ==
    /\ \A h \in handles :
          guards[h.impl].reached # "no" /\ Close(h)
              => UNCHANGED <<guards, native, handles, iters, log>>
    /\ \A i \in iters :
          guards[i.impl].reached # "no" /\ IterClose(i)
              => UNCHANGED <<guards, native, handles, iters, log>>

ReleasedOnce == []ReleasedOnceState /\ [][RepeatedCloseStep]_vars

\* close() is called on an Iterator that a cascade had closed already.
ReleasedOnceWitness ==
    /\ lastCall.op = "close"
    /\ guards[lastCall.guard].reached = "cascade"
    /\ \E i \in iters : i.impl = lastCall.guard

(* C2: once close() has reached a guard, every native resource made under    *)
(* its resource (iterators, snapshots, iterators of snapshots, through the   *)
(* owning handle or a scoped one) is released and its guard is cleared.      *)
ClosedUnder ==
    \A g \in DOMAIN guards : \A r \in DOMAIN native :
        guards[g].reached # "no" /\ MadeUnder(r, guards[g].wraps)
            => ~native[r].open /\ guards[GuardOf(r)].ref = 0

\* The owning handle is closed while a snapshot and an iterator of that
\* snapshot are live: both are closed by the cascade.
ClosedUnderWitness ==
    /\ guards[1].reached = "close"
    /\ \E s, i \in DOMAIN native :
          /\ native[s].kind = "snapshot" /\ native[s].parent = 1
          /\ native[i].kind = "iterator" /\ native[i].parent = s
          /\ guards[GuardOf(s)].reached = "cascade"
          /\ guards[GuardOf(i)].reached = "cascade"

(* C3: native resources are released children first: a resource is released  *)
(* after every resource made under it that is released at all, and no        *)
(* resource is open while the one it was made from is released.              *)
ReleaseOrder ==
    /\ \A i, j \in DOMAIN log : MadeUnder(log[j], log[i]) => j < i
    /\ \A r, p \in DOMAIN native : MadeUnder(r, p) /\ native[r].open => native[p].open

\* The owning handle is closed while two of its iterators are live.
ReleaseOrderWitness ==
    /\ Len(log) = 3 /\ log[3] = 1
    /\ \A r \in {2, 3} :
          /\ native[r].kind = "iterator" /\ native[r].parent = 1
          /\ guards[GuardOf(r)].reached = "cascade"

(* C4: no operation through a handle or an Iterator calls a primitive of a   *)
(* native resource that is released, or made from one that is: on a closed   *)
(* guard the operation fails before it reaches the engine.                   *)
NoDanglingAccess ==
    /\ ~lastCall.dangling
    /\ lastCall.result = "AttributeError" <=>
          lastCall.op \notin {"open", "close", "scope", "del"}
          /\ guards[lastCall.guard].reached # "no"

\* An operation on an Iterator that the close of its parent has closed.
NoDanglingAccessWitness ==
    /\ lastCall.op \in {"valid", "next"}
    /\ lastCall.result = "AttributeError"
    /\ guards[lastCall.guard].reached = "cascade"

(* C5: close() on a handle obtained from scope() changes nothing: no native  *)
(* resource is released, no guard is cleared, and the handles and iterators  *)
(* stay as they are.                                                         *)
ScopedCloseStep ==
    \A h \in handles :
        h.origin = "scope" /\ Close(h)
            => UNCHANGED <<guards, native, handles, iters, log>>

ScopedCloseIsNoop == [][ScopedCloseStep]_vars

\* close() was called on the scope of a snapshot, and the snapshot is open.
ScopedCloseIsNoopWitness ==
    /\ lastCall.op = "close"
    /\ guards[lastCall.guard].reached = "no"
    /\ native[guards[lastCall.guard].ref].kind = "snapshot"
    /\ native[guards[lastCall.guard].ref].open
    /\ \E h \in handles : h.impl = lastCall.guard /\ h.origin = "scope"

\* The keys of a mutation.
Keys(m) == DOMAIN m.puts \cup m.deletes

\* Every key of the mutation a step hands the engine starts with prefix p.
SendsUnder(p) ==
    /\ lastCall'.wrote # None
    /\ p # None => \A k \in Keys(lastCall'.wrote[1]) : StartsWith(k, p[1])

(* C6 as stated: putTo and deleteFrom on handle h raise ValueError and leave *)
(* the batch as it is whenever the batch does not come from h's own          *)
(* newBatch(), be it standalone or issued by another handle.                 *)
RejectsForeignBatchStep ==
    \A h \in handles : \A b \in DOMAIN batches : \A k \in BatchKeys :
        /\ batches[b].issuer # Some(h)
        /\ (\E v \in BatchVals : PutTo(h, b, k, v)) \/ DeleteFrom(h, b, k)
        => lastCall'.result = "ValueError" /\ batches' = batches

RejectsStandaloneBatchStep ==
    \A h \in handles : \A b \in DOMAIN batches : \A k \in BatchKeys :
        LET stored == Translate(h.prefix, k) IN
        /\ \A v \in BatchVals : PutTo(h, b, k, v) =>
              IF batches[b].issuer = None
              THEN lastCall'.result = "ValueError" /\ batches' = batches
              ELSE /\ lastCall'.result = "ok"
                   /\ batches'[b].puts = SetItem(batches[b].puts, stored, v)
                   /\ batches'[b].deletes = batches[b].deletes \ {stored}
        /\ DeleteFrom(h, b, k) =>
              IF batches[b].issuer = None
              THEN lastCall'.result = "ValueError" /\ batches' = batches
              ELSE /\ lastCall'.result = "ok"
                   /\ batches'[b].puts = Pop(batches[b].puts, stored)
                   /\ batches'[b].deletes = batches[b].deletes \cup {stored}

WritesUnderPrefixStep ==
    \A h \in handles :
        \/ \E k \in BatchKeys, v \in BatchVals : Put(h, k, v)
        \/ \E k \in BatchKeys : Delete(h, k)
        \/ \E b \in DOMAIN batches : Write(h, b)
        => SendsUnder(h.prefix)

WritesUnderPrefix == [][WritesUnderPrefixStep]_vars

(* C7, amended: every mutation that reaches the engine through put, delete   *)
(* or write(standalone batch) of a handle with prefix P targets keys that    *)
(* start with P; a handle-issued batch is handed to the engine as stored,    *)
(* each key under the prefix of the handle whose putTo or deleteFrom         *)
(* recorded it.                                                              *)
WritesAsRecordedStep ==
    \A h \in handles :
        /\ \/ \E k \in BatchKeys, v \in BatchVals : Put(h, k, v)
           \/ \E k \in BatchKeys : Delete(h, k)
           => SendsUnder(h.prefix)
        /\ \A b \in DOMAIN batches : Write(h, b) =>
              IF batches[b].issuer = None
              THEN SendsUnder(h.prefix)
              ELSE /\ lastCall'.wrote = Some(Mutation(batches[b].puts, batches[b].deletes))
                   /\ \A k \in Keys(batches[b]) :
                         LET by == batches[b].touched[k].by IN
                         by # None => StartsWith(k, by[1])

WritesAsRecorded == [][WritesAsRecordedStep]_vars

\* A handle-issued batch filled through a prefixed and an unprefixed handle
\* has been written.
WritesAsRecordedWitness ==
    /\ lastCall.op = "write" /\ lastCall.wrote # None
    /\ batches[lastCall.batch].issuer # None
    /\ \E k1, k2 \in Keys(lastCall.wrote[1]) :
          /\ batches[lastCall.batch].touched[k1].by = None
          /\ batches[lastCall.batch].touched[k2].by = Some(GuardPrefix)

(* C8: write of a standalone batch through a handle with a non-empty prefix  *)
(* P hands the engine one put of P + k with the same value for every pending *)
(* put k, one delete of P + k for every pending delete k and nothing else,   *)
(* the store takes exactly that, and the caller's batch holds the same       *)
(* unprefixed puts and deletes after the call as before.                     *)
WriteTranslatesCopyStep ==
    \A h \in handles : \A b \in DOMAIN batches :
        /\ Write(h, b)
        /\ h.prefix # None /\ h.prefix # Some(<<>>)
        /\ batches[b].issuer = None
        /\ lastCall'.result = "ok"
        => LET P == h.prefix[1]
               old == batches[b]
               sent == lastCall'.wrote[1]
               store == native[lastCall'.res].content
           IN  /\ DOMAIN sent.puts = {P \o k : k \in DOMAIN old.puts}
               /\ \A k \in DOMAIN old.puts : sent.puts[P \o k] = old.puts[k]
               /\ sent.deletes = {P \o k : k \in old.deletes}
               /\ native'[lastCall'.res].content =
                      EngineWrite(store, sent.puts, sent.deletes)
               /\ batches'[b].puts = old.puts
               /\ batches'[b].deletes = old.deletes

WriteTranslatesCopy == [][WriteTranslatesCopyStep]_vars

\* A standalone batch with a pending put and a pending delete has been
\* written through the scoped handle.
WriteTranslatesCopyWitness ==
    /\ lastCall.op = "write" /\ lastCall.wrote # None
    /\ batches[lastCall.batch].issuer = None
    /\ \E k1, k2 \in BatchKeys :
          /\ k1 \in DOMAIN batches[lastCall.batch].puts
          /\ k2 \in batches[lastCall.batch].deletes
          /\ DOMAIN lastCall.wrote[1].puts = {GuardPrefix \o k1}
          /\ lastCall.wrote[1].deletes = {GuardPrefix \o k2}

(* C9: in every batch the put set and the delete set are disjoint, and each  *)
(* key recorded since the batch was made or cleared is in the set of its     *)
(* last operation only, a put with its last value; nothing else is in either *)
(* set, so a cleared batch is empty.                                         *)
LastOperationWins ==
    \A b \in DOMAIN batches :
        LET batch == batches[b] IN
        /\ DOMAIN batch.puts \cap batch.deletes = {}
        /\ DOMAIN batch.puts \cup batch.deletes = DOMAIN batch.touched
        /\ \A k \in DOMAIN batch.touched :
              IF batch.touched[k].op = "put"
              THEN k \in DOMAIN batch.puts /\ Some(batch.puts[k]) = batch.touched[k].val
              ELSE k \in batch.deletes
        /\ lastCall.op = "batch.clear" /\ lastCall.batch = b
              => batch.puts = <<>> /\ batch.deletes = {}

\* put has just replaced a pending delete of the key (delete; put).
LastOperationWinsWitness ==
    /\ lastCall.op = "batch.put"
    /\ lastCall.was[1].op = "delete"
    /\ lastCall.was[1].key \in DOMAIN batches[lastCall.batch].puts
    /\ lastCall.was[1].key \notin batches[lastCall.batch].deletes

\* The keys of a set in ascending byte order.
RECURSIVE Ascending(_)
Ascending(keys) ==
    IF keys = {} THEN <<>>
    ELSE LET k == MinKey(keys)[1] IN <<k>> \o Ascending(keys \ {k})

\* The rows of `content` whose key starts with P, P stripped, ascending.
RowsUnder(content, P) ==
    LET under == Ascending({k \in DOMAIN content : StartsWith(k, P)})
    IN  [n \in 1..Len(under) |-> Row(Strip(under[n], P), content[under[n]])]

\* The effective prefix of Iterator i as a byte string: no prefix selects
\* every key, as the empty prefix does.
PrefixOf(i) == IF i.prefix = None THEN <<>> ELSE i.prefix[1]

(* C10: an Iterator positioned with seekFirst() and driven by next() to the  *)
(* end has returned exactly the rows of its store whose key starts with its  *)
(* effective prefix P, once each, P stripped, in ascending byte order (and   *)
(* the first ones of them while it is on its way); and valid() returns true  *)
(* exactly when the native cursor is positioned and, if a prefix is set, on  *)
(* a key that starts with P.                                                 *)
ScanYieldsPrefixRows ==
    /\ \A i \in iters :
          scan.it = i.impl /\ scan.from = "seekFirst" =>
              LET rows == RowsUnder(native[guards[i.impl].wraps].content, PrefixOf(i))
              IN  /\ Len(scan.rows) <= Len(rows)
                  /\ scan.rows = SubSeq(rows, 1, Len(scan.rows))
                  /\ scan.ended => scan.rows = rows
    /\ \A i \in iters :
          lastCall.op = "valid" /\ lastCall.guard = i.impl /\ lastCall.result = "ok" =>
              LET pos == native[lastCall.res].pos
              IN  lastCall.ret = Some(/\ pos # None
                                      /\ i.prefix # None => StartsWith(pos[1], i.prefix[1]))

\* A scan under the prefix of a scoped handle extended by a sub-prefix has
\* ended after two rows, in a store with keys below, above and under the
\* prefix of the handle.
ScanYieldsPrefixRowsWitness ==
    /\ scan.from = "seekFirst" /\ scan.ended /\ Len(scan.rows) = 2
    /\ \E i \in iters : i.impl = scan.it /\ i.prefix = Some(GuardPrefix \o <<0>>)
    /\ DOMAIN native[1].content = IterKeys

\* The keys of Iterator i's store that start with its prefix.
KeysUnder(i) ==
    {k \in DOMAIN native[guards[i.impl].wraps].content : StartsWith(k, PrefixOf(i))}

(* C11: after seekLast() the iterator is valid and on the greatest key of    *)
(* its store that starts with its prefix P if there is one, and invalid if   *)
(* there is none, whatever keys lie below and above the range of P, for      *)
(* prefixes that end in 0xFF and prefixes of 0xFF bytes only as well; the    *)
(* successor of [1, 2] is [1, 3] and that of [1, 0xFF] is [2].               *)
SeekLastLandsOnLast ==
    /\ NextPrefix(<<1, 2>>) = <<1, 3>>
    /\ NextPrefix(<<1, 255>>) = <<2>>
    /\ \A i \in iters :
          lastCall.op = "seekLast" /\ lastCall.guard = i.impl /\ lastCall.result = "ok" =>
              IF KeysUnder(i) = {}
              THEN ~Valid(native, i, lastCall.res)
              ELSE /\ Valid(native, i, lastCall.res)
                   /\ native[lastCall.res].pos = MaxKey(KeysUnder(i))

\* seekLast() under [1, 0xFF] in a store that holds a key below the prefix,
\* one under it and its successor.
SeekLastLandsOnLastWitness ==
    /\ lastCall.op = "seekLast" /\ lastCall.result = "ok"
    /\ \E i \in iters : i.impl = lastCall.guard /\ i.prefix = Some(<<1, 255>>)
    /\ DOMAIN native[1].content = {<<0>>, <<1, 255, 255>>, <<2>>}
    /\ native[lastCall.res].pos = Some(<<1, 255, 255>>)

\* Stripped key k lies within the bounds of a range.
InRange(k, start_key, end_key, start_inclusive, end_inclusive) ==
    /\ start_key # None =>
          LexLess(start_key[1], k) \/ (start_inclusive /\ k = start_key[1])
    /\ end_key # None =>
          LexLess(k, end_key[1]) \/ (end_inclusive /\ k = end_key[1])

\* The rows of `content` under P whose stripped key lies within the bounds,
\* P stripped, ascending.
RowsWithin(content, P, start_key, end_key, start_inclusive, end_inclusive) ==
    LET under == Ascending({k \in DOMAIN content :
                     /\ StartsWith(k, P)
                     /\ InRange(Strip(k, P), start_key, end_key,
                                start_inclusive, end_inclusive)})
    IN  [n \in 1..Len(under) |-> Row(Strip(under[n], P), content[under[n]])]

\* The step's range has yielded exactly the rows of `content` under prefix
\* p within the bounds.
YieldsWithin(content, p, start_key, end_key, start_inclusive, end_inclusive) ==
    /\ lastCall'.result = "ok"
    /\ lastCall'.ret = Some(RowsWithin(content, IF p = None THEN <<>> ELSE p[1],
                              start_key, end_key, start_inclusive, end_inclusive))

(* C12: range(start, end, start_inclusive, end_inclusive), on an open        *)
(* Iterator that returns rows or on an open handle, yields in ascending      *)
(* order, once each, exactly the rows under the prefix whose stripped key    *)
(* lies within the bounds (a missing bound does not bound); over the keys    *)
(* 1..5, range(2, 4) with an inclusive start and an exclusive end yields the *)
(* rows of 2 and 3.                                                          *)
RangeYieldsWithinStep ==
    \A s \in RangeBounds, e \in RangeBounds, si \in BOOLEAN, ei \in BOOLEAN :
        /\ \A i \in iters :
              /\ ~i.keys_only /\ guards[i.impl].ref # 0
              /\ IterRange(i, s, e, si, ei)
              => YieldsWithin(native[guards[i.impl].ref].content, i.prefix, s, e, si, ei)
        /\ \A h \in handles :
              /\ guards[h.impl].ref # 0
              /\ HandleRange(h, s, e, si, ei)
              => YieldsWithin(native[guards[h.impl].ref].content, h.prefix, s, e, si, ei)

RangeYieldsWithin == [][RangeYieldsWithinStep]_vars

(* C18: range, keys, values, next and prev read the key or the value of the  *)
(* native cursor only while it is positioned on an entry.                    *)
ReadsPositionedCursor == ~lastCall.undefined

\* What a store holds under engine key k: Some(value), or None.
Held(content, k) == IF k \in DOMAIN content THEN Some(content[k]) ELSE None

\* scope(p1).scope(p2) returns the handle scope(p1 + p2) returns.
ScopesCompose ==
    \A h \in handles : \A p1, p2 \in ScopePieces :
        ScopedHandle(ScopedHandle(h, p1), p2) = ScopedHandle(h, p1 \o p2)

\* With P the effective prefix of handle h: scope(p) returns a handle on the
\* same guard with effective prefix P + p, snapshot() one with the prefix of
\* h, and put, delete and get act on the engine key P + k.
ActsOnConcatenatedKey ==
    \A h \in handles :
        LET P == PrefixOf(h)
            r == guards[h.impl].ref
        IN  /\ lastCall'.op = "scope" =>
                \A p \in ScopePieces : Scope(h, p) =>
                    \E n \in handles' :
                        /\ n.impl = h.impl
                        /\ n.prefix = Some(P \o p)
            /\ (lastCall'.op = "snapshot" /\ lastCall'.result = "ok" /\ Snapshot(h)) =>
                \E n \in handles' \ handles :
                    /\ n.prefix = h.prefix
                    /\ guards'[n.impl].ref = Len(native')
                    /\ native'[Len(native')].content = native[r].content
            /\ (lastCall'.op = "put" /\ lastCall'.result = "ok") =>
                \A k \in ScopeKeys, v \in ScopeVals : Put(h, k, v) =>
                    /\ Held(native'[r].content, P \o k) = Some(v)
                    /\ \A o \in DOMAIN native[r].content \cup DOMAIN native'[r].content :
                           o # P \o k =>
                               Held(native'[r].content, o) = Held(native[r].content, o)
            /\ (lastCall'.op = "delete" /\ lastCall'.result = "ok") =>
                \A k \in ScopeKeys : Delete(h, k) =>
                    /\ Held(native'[r].content, P \o k) = None
                    /\ \A o \in DOMAIN native[r].content \cup DOMAIN native'[r].content :
                           o # P \o k =>
                               Held(native'[r].content, o) = Held(native[r].content, o)
            /\ (lastCall'.op = "get" /\ lastCall'.result = "ok") =>
                \A k \in ScopeKeys : Get(h, k) =>
                    lastCall'.ret = Some(Held(native[r].content, P \o k))

(* C13: a handle reached by nested scoping with p1, ..., pn has the effective *)
(* prefix p1 + ... + pn: each scope(p) appends p to the prefix of the handle  *)
(* it is called on, scope(p1).scope(p2) is the handle scope(p1 + p2) is, a    *)
(* snapshot of a handle keeps its prefix, and put(k, v), delete(k) and get(k) *)
(* on a handle of effective prefix P write, remove and read the engine key    *)
(* P + k and no other, so that get(k) after put(k, v) returns v and the root  *)
(* handle reads v under P + k.                                                *)
ScopeComposition == []ScopesCompose /\ [][ActsOnConcatenatedKey]_vars

\* A handle scoped twice holds <<1, 2>>, and a get through a scoped handle
\* has just returned the value put under the engine key <<1, 2, 0>>.
ScopeCompositionWitness ==
    /\ \E h \in handles : h.prefix = Some(<<1, 2>>) /\ h.origin = "scope"
    /\ lastCall.op = "get"
    /\ lastCall.ret = Some(Some(<<7>>))
    /\ DOMAIN native[1].content = {<<1, 2, 0>>}

\* With P the effective prefix of handle h and k a key: get(k) returns what
\* the store holds under P + k, None when it holds nothing; has(k) and
\* "k in h" tell whether it holds anything; h[k] returns what get(k) returns
\* when it does and raises KeyError when it does not; and the store, the
\* guards and the handles are after the read what they were before.
LookupStep ==
    \A h \in handles : \A k \in ScopeKeys :
        LET held == Held(native[guards[h.impl].ref].content, PrefixOf(h) \o k)
            same == UNCHANGED <<native, guards, handles>>
        IN  /\ (lastCall'.op = "get" /\ Get(h, k)) =>
                /\ lastCall'.result = "ok"
                /\ lastCall'.ret = Some(held)
                /\ same
            /\ (lastCall'.op = "has" /\ Has(h, k)) =>
                /\ lastCall'.result = "ok"
                /\ lastCall'.ret = Some(held # None)
                /\ same
            /\ (lastCall'.op = "getitem" /\ GetItem(h, k)) =>
                /\ IF held = None
                   THEN lastCall'.result = "KeyError" /\ lastCall'.ret = None
                   ELSE lastCall'.result = "ok" /\ lastCall'.ret = Some(held)
                /\ same

(* C15: for a key with no entry under the handle's effective prefix, get      *)
(* returns None and raises nothing, has and "in" return false and handle[key] *)
(* raises KeyError; for a key with an entry, the empty value included, has    *)
(* returns true and handle[key] returns the value get returns; and no such    *)
(* read changes the store.                                                    *)
LookupMiss == [][LookupStep]_vars

\* handle[key] has just raised KeyError on a store that holds other keys.
LookupMissWitness ==
    /\ lastCall.op = "getitem"
    /\ lastCall.result = "KeyError"
    /\ DOMAIN native[1].content # {}

\* The native cursor of Iterator i, and the store it reads.
CursorOf(i) == native[guards[i.impl].ref].pos

StoreOf(i) == native[guards[i.impl].ref].content

\* Iterator i is on a key, and the key starts with its prefix.
OnPrefixKey(i) == CursorOf(i) # None /\ StartsWith(CursorOf(i)[1], PrefixOf(i))

\* The entry Iterator i is on, as next() and prev() are to return it.
EntryAt(i) ==
    LET k == CursorOf(i)[1] IN
    IF i.keys_only THEN Strip(k, PrefixOf(i))
    ELSE Row(Strip(k, PrefixOf(i)), StoreOf(i)[k])

\* The position `steps` places after key k in the store of Iterator i
\* (before it, for negative steps): None when there is no such place.
Place(i, k, steps) ==
    LET order == Ascending(DOMAIN StoreOf(i))
        at    == CHOOSE n \in 1..Len(order) : order[n] = k
    IN  IF at + steps \in 1..Len(order) THEN Some(order[at + steps]) ELSE None

\* next() and prev() of Iterator i, one position forward and backward.
StepsOne(i, op, steps) ==
    IF OnPrefixKey(i)
    THEN /\ lastCall'.result = "ok"
         /\ lastCall'.ret = Some(EntryAt(i))
         /\ native' = [native EXCEPT ![guards[i.impl].ref].pos =
                          Place(i, CursorOf(i)[1], steps)]
    ELSE /\ lastCall'.result = "StopIteration"
         /\ lastCall'.ret = None
         /\ native' = native

ReturnsThenMovesStep ==
    \A i \in iters :
        /\ (lastCall'.op = "next" /\ IterNext(i)) => StepsOne(i, "next", 1)
        /\ (lastCall'.op = "prev" /\ IterPrev(i)) => StepsOne(i, "prev", -1)

(* C14: next() and prev() on a valid Iterator return the entry the cursor was *)
(* on before the call (a Row of the key without the prefix and the value, or  *)
(* that key alone from a keys-only Iterator) and leave the native cursor one  *)
(* position after it, respectively before it, in key order; on an Iterator    *)
(* that is not valid, for the cursor is on no key or on a key outside the     *)
(* prefix, they raise StopIteration and leave the cursor where it was.        *)
ReturnsThenMoves == [][ReturnsThenMovesStep]_vars

\* prev() on a keys-only Iterator under <<1>> has just returned the engine
\* key <<1, 1>> as the bare key <<1>> and left the cursor on the engine key
\* <<1>>, the first key under the prefix.
ReturnsThenMovesWitness ==
    /\ lastCall.op = "prev"
    /\ \E i \in iters :
          /\ i.impl = lastCall.guard
          /\ i.keys_only
          /\ i.prefix = Some(<<1>>)
          /\ CursorOf(i) = Some(<<1>>)
          /\ lastCall.ret = Some(<<1>>)

\* The Iterator the scan on is a scan of.
Scanned == CHOOSE i \in iters : i.impl = scan.it

\* The first key of the store of Iterator i that is not below the engine key
\* t, as a position: None when every key is below t.
FirstAtLeast(i, t) ==
    LET rest == Ascending({k \in DOMAIN StoreOf(i) : ~LexLess(k, t)})
    IN  IF rest = <<>> THEN None ELSE Some(rest[1])

\* The position the repositioning that began the scan on asks for: seek(key)
\* the first key not below prefix + key, seekFirst() the first key not below
\* the prefix, seekLast() the last key under the prefix.
Target(i) ==
    LET under == Ascending(KeysUnder(i)) IN
    CASE scan.from = "seek"      -> FirstAtLeast(i, PrefixOf(i) \o scan.key[1])
      [] scan.from = "seekFirst" -> FirstAtLeast(i, PrefixOf(i))
      [] scan.from = "seekLast"  -> IF under = <<>> THEN None
                                    ELSE Some(under[Len(under)])

\* The entry of the store of Iterator i under engine key k, as next() is to
\* return it.
EntryOf(i, k) ==
    IF i.keys_only THEN Strip(k, PrefixOf(i))
    ELSE Row(Strip(k, PrefixOf(i)), StoreOf(i)[k])

\* The scan on has been repositioned and not stepped yet.
JustSought == scan.it # 0 /\ scan.rows = <<>> /\ ~scan.ended

(* C20: seek(key) leaves the cursor on the first engine key that is not       *)
(* below prefix + key; and once next() or prev() has raised StopIteration on  *)
(* an open Iterator, seek(key), seekFirst() and seekLast() reposition it: if  *)
(* the position asked for holds a key under the prefix, the cursor is on that *)
(* key, valid() returns true, and the next() or prev() that follows returns   *)
(* the entry of that key and not StopIteration.                               *)
RepositionsAfterEnd ==
    scan.it # 0 =>
        LET i  == Scanned
            on == Target(i) # None /\ StartsWith(Target(i)[1], PrefixOf(i))
        IN  /\ (JustSought /\ scan.from = "seek") => CursorOf(i) = Target(i)
            /\ (scan.reused /\ on) =>
                /\ JustSought => CursorOf(i) = Target(i)
                /\ (JustSought /\ lastCall.op = "valid" /\ lastCall.guard = scan.it) =>
                       lastCall.ret = Some(TRUE)
                /\ scan.ended => scan.rows # <<>>
                /\ scan.rows # <<>> => scan.rows[1] = EntryOf(i, Target(i)[1])

\* An Iterator under <<1>> that had reached the end was repositioned with
\* seek(<<0>>), and the next() after it has returned the entry of <<1, 1>>.
RepositionsAfterEndWitness ==
    /\ scan.reused
    /\ scan.from = "seek"
    /\ scan.key = Some(<<0>>)
    /\ Len(scan.rows) = 1
    /\ lastCall.op = "next"
    /\ lastCall.result = "ok"
    /\ Scanned.prefix = Some(<<1>>)
    /\ CursorOf(Scanned) = Some(<<2>>)

\* A sequence in reverse order.
Reversed(rows) == [n \in 1..Len(rows) |-> rows[Len(rows) + 1 - n]]

\* The first n elements of a sequence.
FirstOf(rows, n) == SubSeq(rows, 1, n)

(* C19: an Iterator positioned with seekLast() and driven by prev() to the    *)
(* end has returned exactly the rows of its store whose key starts with its   *)
(* prefix P, once each, P stripped, in descending byte order, and the first   *)
(* ones of them in that order while it is on its way; no row from outside P   *)
(* is ever returned, whether the scan ends on a key below P or at the         *)
(* beginning of the store.                                                    *)
BackwardYieldsPrefixRows ==
    (scan.it # 0 /\ scan.from = "seekLast") =>
        LET i    == Scanned
            down == Reversed(RowsUnder(StoreOf(i), PrefixOf(i)))
        IN  /\ Len(scan.rows) <= Len(down)
            /\ scan.rows = FirstOf(down, Len(scan.rows))
            /\ scan.ended => scan.rows = down

\* A backward scan under <<1, 255>> has ended below the prefix, on <<1, 3>>,
\* after returning the rows of <<1, 255, 255>> and <<1, 255>> in that order.
BackwardYieldsPrefixRowsWitness ==
    /\ scan.from = "seekLast"
    /\ scan.ended
    /\ scan.rows = <<Row(<<255>>, ValueOf(<<1, 255, 255>>)),
                     Row(<<>>, ValueOf(<<1, 255>>))>>
    /\ Scanned.prefix = Some(<<1, 255>>)
    /\ CursorOf(Scanned) = Some(<<1, 3>>)

\* Guard g is neither guard c nor the guard of a resource made under the
\* resource of c.
Outside(g, c) ==
    /\ g # c
    /\ ~MadeUnder(guards[g].wraps, guards[c].wraps)

\* close() is called on guard c through an Iterator or through the handle
\* snapshot() returned.
ClosesDependent(c) ==
    /\ lastCall'.op = "close"
    /\ lastCall'.guard = c
    /\ \/ \E i \in iters : i.impl = c /\ IterClose(i)
       \/ \E h \in handles : h.impl = c /\ h.origin = "snapshot" /\ Close(h)

\* The close of a dependent leaves every guard outside it, the guard it was
\* made from and its siblings included, and the native resource of each as
\* they were, and releases no resource but its own and those made under it.
CloseStaysBelowStep ==
    \A c \in DOMAIN guards :
        ClosesDependent(c) =>
            /\ \A g \in DOMAIN guards :
                  Outside(g, c) =>
                      /\ guards'[g] = guards[g]
                      /\ native'[guards[g].wraps] = native[guards[g].wraps]
            /\ \A k \in (Len(log) + 1)..Len(log') :
                  \/ log'[k] = guards[c].wraps
                  \/ MadeUnder(log'[k], guards[c].wraps)

\* Where close() has reached a guard whose dependent had been closed on its
\* own before, both resources are released, once each.
ParentClosesAfter ==
    \A r \in DOMAIN native :
        LET p == native[r].parent IN
        (p # 0 /\ guards[GuardOf(r)].reached = "close"
               /\ guards[GuardOf(p)].reached # "no") =>
            /\ native[p].releases = 1 /\ ~native[p].open
            /\ native[r].releases = 1 /\ ~native[r].open
            /\ guards[GuardOf(p)].ref = 0

(* C16: close() on an Iterator or on a snapshot's handle releases only the    *)
(* native resource of that object and of what was made under it: the guard    *)
(* it was made from, the sibling iterators and snapshots and their native     *)
(* resources are after the close what they were before, open and usable if   *)
(* they were; and a later close of the parent completes and releases the      *)
(* parent's resource exactly once, and the dependent's not again.             *)
CloseStaysBelow == []ParentClosesAfter /\ [][CloseStaysBelowStep]_vars

\* An Iterator was closed on its own while a sibling was open, and then the
\* owning handle was closed: the store is released once, the sibling by the
\* cascade.
CloseStaysBelowWitness ==
    /\ guards[1].reached = "close"
    /\ native[1].releases = 1
    /\ \E a, b \in DOMAIN native :
          /\ native[a].kind = "iterator" /\ native[a].parent = 1
          /\ native[b].parent = 1
          /\ guards[GuardOf(a)].reached = "close"
          /\ guards[GuardOf(b)].reached = "cascade"
          /\ log = <<a, b, 1>>

\* close() has reached guard g.
Closed(g) == guards[g].reached # "no"

\* On a closed guard addReferrer raises "already closed" and records
\* nothing, and iterator() and snapshot() through a handle that shares the
\* guard fail and make no guard, no native resource, no handle and no
\* Iterator.
NothingUnderClosedStep ==
    /\ \A g, c \in DOMAIN guards :
          (lastCall'.op = "addReferrer" /\ Closed(g) /\ AddReferrerCall(g, c)) =>
              /\ lastCall'.result = "Exception"
              /\ UNCHANGED <<guards, native, handles, iters, log>>
    /\ \A h \in handles :
          (/\ lastCall'.op \in {"iterator", "snapshot"}
           /\ Closed(h.impl)
           /\ NewIterator(h, None, FALSE) \/ Snapshot(h)) =>
              /\ lastCall'.result # "ok"
              /\ UNCHANGED <<guards, native, handles, iters, log>>

\* Every open native cursor and snapshot is recorded as a dependent in the
\* guard of the resource it was made from, and that guard is not closed.
OpenIsRegistered ==
    \A r \in DOMAIN native :
        (native[r].parent # 0 /\ native[r].open) =>
            LET g == GuardOf(native[r].parent) IN
            /\ ~Closed(g)
            /\ guards[g].referrers # None
            /\ GuardOf(r) \in guards[g].referrers[1]

(* C17: once close() has reached a guard, nothing new comes under it:         *)
(* addReferrer on it raises "already closed" and records nothing, iterator()  *)
(* and snapshot() through the owning handle or a scoped one that shares it    *)
(* fail without making a native cursor or snapshot, and no native resource is *)
(* ever open without being recorded in the open guard it was made from.       *)
NothingUnderClosed == []OpenIsRegistered /\ [][NothingUnderClosedStep]_vars

\* addReferrer has just raised on the closed guard of a snapshot, called with
\* the guard of an Iterator of that snapshot.
NothingUnderClosedWitness ==
    /\ lastCall.op = "addReferrer"
    /\ lastCall.result = "Exception"
    /\ Closed(lastCall.guard)
    /\ native[guards[lastCall.guard].wraps].kind = "snapshot"
    /\ \E i \in iters : native[guards[i.impl].wraps].parent = guards[lastCall.guard].wraps

==============================================================================
